---- MODULE Spec2Model ----
(***************************************************************************)
(* A model of the Boston open-data MCP server (src/src/index.ts): the      *)
(* probe-based paginators fetchAllPermitsParallel, fetchAllFoodViolations, *)
(* fetchAllCrimeRecords and fetchAllCheckbookRecords, the five tool        *)
(* handlers that call them, and the upstream CKAN datastore they query.    *)
(*                                                                         *)
(* One step of the model is one turn of the JavaScript event loop: a       *)
(* handler is called, or one outstanding HTTP request settles, and the     *)
(* code that this makes runnable runs until every task awaits again.       *)
(* Records are not modelled one by one: a page is the segment              *)
(* [off, n] of the n rows the upstream served at offset off.               *)
(***************************************************************************)
EXTENDS Integers, Sequences, FiniteSets, TLC

\* ---------------------------------------------------------------------
\* Program constants
\* ---------------------------------------------------------------------
PARALLEL_REQUESTS == 7

PAGE_SIZE == 100

\* ---------------------------------------------------------------------
\* Bounds of the model
\* ---------------------------------------------------------------------
\* the upstream holds at most MaxPages pages of matching rows
MaxPages == 8

\* the upstream dataset changes at most MaxChanges times during a call
MaxChanges == 1

\* totals the upstream may hold: none, whole pages, and a half page short
Totals ==
  {0} \cup {p * PAGE_SIZE : p \in 1..MaxPages}
      \cup {p * PAGE_SIZE - (PAGE_SIZE \div 2) : p \in 1..MaxPages}

\* totals a change of the dataset may lead to: every row deleted, or a
\* page of rows added
ChangedTotals(rt) == {0, rt + PAGE_SIZE}

\* values of the limit parameter of get_311_requests (min 1, max 100,
\* default 10)
Limits == {1, 10, 100}

Paginators == {"permits", "food", "crime", "checkbook"}

Tools == Paginators \cup {"sr311"}

Min(a, b) == IF a < b THEN a ELSE b

\* ---------------------------------------------------------------------
\* The upstream datastore
\* ---------------------------------------------------------------------
\* A response as the code observes it:
\*   net      fetch() resolved (FALSE: the network call itself rejected)
\*   ok       response.ok, a 2xx status
\*   json     response.json() resolved (FALSE: the body does not parse)
\*   success  data.success
\*   result   the body has a result object
\*   n        result.total of a probe (0 when absent), or the length of
\*            result.records of a page
Good(n) ==
  [net |-> TRUE, ok |-> TRUE, json |-> TRUE, success |-> TRUE,
   result |-> TRUE, n |-> n]

NetworkFailure ==
  [net |-> FALSE, ok |-> FALSE, json |-> FALSE, success |-> FALSE,
   result |-> FALSE, n |-> 0]

Unparseable ==
  [net |-> TRUE, ok |-> TRUE, json |-> FALSE, success |-> FALSE,
   result |-> FALSE, n |-> 0]

BadStatus ==
  [net |-> TRUE, ok |-> FALSE, json |-> TRUE, success |-> FALSE,
   result |-> FALSE, n |-> 0]

BadStatusWithResult(n) ==
  [net |-> TRUE, ok |-> FALSE, json |-> TRUE, success |-> TRUE,
   result |-> TRUE, n |-> n]

Unsuccessful ==
  [net |-> TRUE, ok |-> TRUE, json |-> TRUE, success |-> FALSE,
   result |-> FALSE, n |-> 0]

UnsuccessfulWithResult(n) ==
  [net |-> TRUE, ok |-> TRUE, json |-> TRUE, success |-> FALSE,
   result |-> TRUE, n |-> n]

Responses(n) ==
  {Good(n), NetworkFailure, Unparseable, BadStatus, BadStatusWithResult(n),
   Unsuccessful, UnsuccessfulWithResult(n)}

\* a response with a non-2xx status or with success: false
IsRemoteError(resp) == resp.net /\ (~resp.ok \/ (resp.json /\ ~resp.success))

\* rows the upstream serves for limit lim at offset o while it holds rt rows
PageLen(o, lim, rt) == IF o >= rt THEN 0 ELSE Min(lim, rt - o)

\* ---------------------------------------------------------------------
\* State
\* ---------------------------------------------------------------------
VARIABLES
  remoteTotal,  \* rows of the upstream that match the query, now
  changes,      \* times the upstream changed since the probe
  tool,         \* the tool invoked, "none" before the call
  localFilter,  \* the caller gave a parameter that is filtered locally
  limit,        \* limit parameter of get_311_requests
  pc,           \* "idle", "probe", "paging", "request", "done"
  total,        \* total read by the count probe
  offsets,      \* offsets computed from total
  i,            \* loop index of the batch loop
  chunkResults, \* one slot per offset of the current batch
  allRecords,   \* segments concatenated so far
  fetchResult,  \* "none", "returned", "threw"
  response,     \* what the tool handler returned
  inflight,     \* page requests issued and not yet settled
  issued,       \* every request issued, in order of issue
  probes,       \* count probes issued
  faults,       \* kinds of request that got a remote error response
  probed,       \* the response the count probe got, NotProbed before
  outOfOrder    \* a request settled before one of a smaller offset

\* the state of a tool call and of the upstream it pages through
pagingVars ==
  <<remoteTotal, changes, tool, localFilter, limit, pc, total, offsets, i,
    chunkResults, allRecords, fetchResult, response, inflight, issued,
    probes, faults, probed, outOfOrder>>

\* The functions that run on the fetched records are exercised one call
\* at a time, each on arguments of its own.
VARIABLES
  address,      \* normalizeAddress: the argument, as a sequence of tokens
  variant,      \* a respelling of address
  edits,        \* respellings made so far
  normalized,   \* the results of normalizeAddress
  query,        \* the address parameter of a filtering handler
  records,      \* the records the handler filters
  matches,      \* the records the filter kept
  rows,         \* the records a handler summarizes
  top,          \* number of entries asked for
  summary,      \* the summary the handler printed
  ckanRows,     \* fetchAllCkanRecords: rows the upstream holds
  ckanReported, \* the total the upstream reports, 0 when it reports none
  ckanPc,       \* "idle", "fetching", "returned", "threw"
  offset,       \* local offset of fetchAllCkanRecords
  ckanTotal,    \* local total of fetchAllCkanRecords
  ckanRecords,  \* local allRecords of fetchAllCkanRecords
  ckanLog       \* offsets fetchAllCkanRecords requested, in order

\* Two calls of a paginator whose awaits interleave.
VARIABLES
  isoPlan,      \* per call: the rows of its dataset, the requests that fail
  isoPc,        \* per call: "idle", "probe", "paging", "done"
  isoLocals,    \* per activation: total, offsets, i, allRecords
  isoBatch,     \* per call: the promises of the batch it awaits
  isoResult,    \* per call: what fetchAll returned or that it threw
  interleaved   \* a call made a step while the other was under way

normalizeVars == <<address, variant, edits, normalized>>

filterVars == <<query, records, matches>>

summaryVars == <<rows, top, summary>>

ckanVars ==
  <<ckanRows, ckanReported, ckanPc, offset, ckanTotal, ckanRecords, ckanLog>>

isoVars ==
  <<isoPlan, isoPc, isoLocals, isoBatch, isoResult, interleaved>>

vars ==
  <<pagingVars, normalizeVars, filterVars, summaryVars, ckanVars, isoVars>>

IsoIdle ==
  /\ isoPlan = <<>>
  /\ isoPc = <<>>
  /\ isoLocals = <<>>
  /\ isoBatch = <<>>
  /\ isoResult = <<>>
  /\ interleaved = FALSE

NotNormalized == [done |-> FALSE, addr |-> <<>>, var |-> <<>>, twice |-> <<>>]

NormalizeIdle ==
  /\ address = <<>>
  /\ variant = <<>>
  /\ edits = 0
  /\ normalized = NotNormalized

NotFiltered == [done |-> FALSE, tool |-> "none", kept |-> <<>>]

FilterIdle ==
  /\ query = <<>>
  /\ records = <<>>
  /\ matches = NotFiltered

NotSummarized ==
  [done |-> FALSE, tool |-> "none", threw |-> FALSE, entries |-> <<>>]

SummaryIdle ==
  /\ rows = <<>>
  /\ top = 0
  /\ summary = NotSummarized

CkanIdle ==
  /\ ckanRows = 0
  /\ ckanReported = 0
  /\ ckanPc = "idle"
  /\ offset = 0
  /\ ckanTotal = 0
  /\ ckanRecords = <<>>
  /\ ckanLog = <<>>

NoResponse == [kind |-> "none", count |-> 0]

NotProbed ==
  [net |-> FALSE, ok |-> FALSE, json |-> FALSE, success |-> FALSE,
   result |-> FALSE, n |-> -1]

PagingIdle ==
  /\ changes = 0
  /\ tool = "none"
  /\ localFilter = FALSE
  /\ limit = 0
  /\ pc = "idle"
  /\ total = 0
  /\ offsets = <<>>
  /\ i = 0
  /\ chunkResults = <<>>
  /\ allRecords = <<>>
  /\ fetchResult = "none"
  /\ response = NoResponse
  /\ inflight = {}
  /\ issued = <<>>
  /\ probes = 0
  /\ faults = {}
  /\ probed = NotProbed
  /\ outOfOrder = FALSE

Init ==
  /\ remoteTotal \in Totals
  /\ PagingIdle
  /\ IsoIdle
  /\ NormalizeIdle
  /\ FilterIdle
  /\ SummaryIdle
  /\ CkanIdle

\* ---------------------------------------------------------------------
\* The code of the paginators
\* ---------------------------------------------------------------------
\* The count probe (the same statements in the four paginators): a
\* rejected fetch, a non-2xx status, an unparseable body and a body
\* without a result object throw; data.success is not read.
countProbe_emptyThrows(resp) ==
  [threw |-> (~resp.net \/ ~resp.ok \/ ~resp.json \/ ~resp.result
              \/ resp.n = 0),
   total |-> resp.n]

countProbe(resp) ==
  [threw |-> (~resp.net \/ ~resp.ok \/ ~resp.json \/ ~resp.result),
   total |-> resp.n]

\* for (let i = 0; i < total; i += PAGE_SIZE) offsets.push(i)
RECURSIVE offsetsFrom_inclusive(_, _)
offsetsFrom_inclusive(j, t) ==
  IF j <= t THEN <<j>> \o offsetsFrom_inclusive(j + PAGE_SIZE, t) ELSE <<>>

RECURSIVE offsetsFrom(_, _)
offsetsFrom(j, t) ==
  IF j < t THEN <<j>> \o offsetsFrom(j + PAGE_SIZE, t) ELSE <<>>

\* offsets.slice(i, i + PARALLEL_REQUESTS), i counted from 0
chunkOffsetsOf_wide(offs, idx) ==
  SubSeq(offs, idx + 1, Min(idx + PARALLEL_REQUESTS + 1, Len(offs)))

chunkOffsetsOf(offs, idx) ==
  SubSeq(offs, idx + 1, Min(idx + PARALLEL_REQUESTS, Len(offs)))

\* a chunk helper that checks response.ok and data.success
checkedChunk_dropsRow(resp) ==
  [rejected |-> (~resp.net \/ ~resp.ok \/ ~resp.json \/ ~resp.success
                 \/ ~resp.result),
   n |-> IF resp.n > 0 THEN resp.n - 1 ELSE 0]

checkedChunk(resp) ==
  [rejected |-> (~resp.net \/ ~resp.ok \/ ~resp.json \/ ~resp.success
                 \/ ~resp.result),
   n |-> resp.n]

fetchPermitChunk(resp) == checkedChunk(resp)

fetchFoodChunk(resp) == checkedChunk(resp)

fetchCheckbookChunk(resp) == checkedChunk(resp)

\* the inline chunk of fetchAllCrimeRecords:
\* fetch(chunkUrl).then(res => res.json()).then(data => data.result.records)
fetchCrimeChunk(resp) ==
  [rejected |-> (~resp.net \/ ~resp.json \/ ~resp.result),
   n |-> resp.n]

fetchChunk(t, resp) ==
  CASE t = "permits" -> fetchPermitChunk(resp)
    [] t = "food" -> fetchFoodChunk(resp)
    [] t = "crime" -> fetchCrimeChunk(resp)
    [] OTHER -> fetchCheckbookChunk(resp)

\* the loop increment i += PARALLEL_REQUESTS
nextIndex_short(idx) == idx + PARALLEL_REQUESTS - 1

nextIndex(idx) == idx + PARALLEL_REQUESTS

allResolved_any(slots) == \E k \in 1..Len(slots) : slots[k].st = "resolved"

\* Promise.all resolves once every promise of the batch has resolved
allResolved(slots) == \A k \in 1..Len(slots) : slots[k].st = "resolved"

\* chunkResults.forEach(records => allRecords.push(...records)):
\* the pages are appended in slot order; an empty page appends nothing
RECURSIVE pushAll_prepend(_, _)
pushAll_prepend(recs, slots) ==
  IF slots = <<>> THEN recs
  ELSE pushAll_prepend(IF Head(slots).n > 0
                         THEN <<[off |-> Head(slots).off,
                                 n |-> Head(slots).n]>> \o recs
                         ELSE recs,
                       Tail(slots))

RECURSIVE pushAll(_, _)
pushAll(recs, slots) ==
  IF slots = <<>> THEN recs
  ELSE pushAll(IF Head(slots).n > 0
                 THEN Append(recs, [off |-> Head(slots).off,
                                    n |-> Head(slots).n])
                 ELSE recs,
               Tail(slots))

\* number of records of a sequence of segments
RECURSIVE Length(_)
Length(recs) == IF recs = <<>> THEN 0 ELSE Head(recs).n + Length(Tail(recs))

\* ---------------------------------------------------------------------
\* The code of the tool handlers, after their request or fetchAll
\* ---------------------------------------------------------------------
Failure == [kind |-> "failure", count |-> 0]

Rejected == [kind |-> "rejected", count |-> 0]

\* n records were fetched, kept of them pass the handler's local filter
get_building_permits_fuzzy_parallel(n, kept) ==
  IF n = 0 THEN [kind |-> "none_found", count |-> 0]
  ELSE IF kept = 0 THEN [kind |-> "none_after_normalization", count |-> 0]
  ELSE [kind |-> "listing", count |-> kept]

get_food_service_violations(n, kept) ==
  IF n = 0 THEN [kind |-> "none_found", count |-> 0]
  ELSE [kind |-> "listing", count |-> n]

get_crime_reports(n, kept) ==
  IF n = 0 THEN [kind |-> "none_found", count |-> 0]
  ELSE [kind |-> "summary", count |-> kept]

get_checkbook_records(n, kept) ==
  IF n = 0 THEN [kind |-> "none_found", count |-> 0]
  ELSE [kind |-> "summary", count |-> n]

\* get_311_requests, from its await of fetch on
get_311_requests(resp, kept) ==
  IF ~resp.net THEN Rejected
  ELSE IF ~resp.ok THEN Failure
  ELSE IF ~resp.json THEN Rejected
  ELSE IF ~resp.success THEN Failure
  ELSE IF ~resp.result THEN Rejected
  ELSE IF kept = 0 THEN [kind |-> "none_found", count |-> 0]
  ELSE [kind |-> "listing", count |-> kept]

handlerResponse(t, n, kept) ==
  CASE t = "permits" -> get_building_permits_fuzzy_parallel(n, kept)
    [] t = "food" -> get_food_service_violations(n, kept)
    [] t = "crime" -> get_crime_reports(n, kept)
    [] OTHER -> get_checkbook_records(n, kept)

\* does the handler filter the fetched records locally
filters(t, f) ==
  CASE t = "permits" -> TRUE
    [] t \in {"crime", "sr311"} -> f
    [] OTHER -> FALSE

\* numbers of records a local filter may keep out of n: the records'
\* fields are the upstream's, so none, one or all of them may match
Kept(t, f, n) == IF filters(t, f) THEN {0, Min(1, n), n} ELSE {n}

\* ---------------------------------------------------------------------
\* Steps
\* ---------------------------------------------------------------------
batchOf(idx) == idx \div PARALLEL_REQUESTS

\* the requests of the batch that starts at loop index idx
requestsOf_live(offs, idx) ==
  [k \in 1..Len(chunkOffsetsOf(offsetsFrom(0, remoteTotal), idx)) |->
     [off |-> chunkOffsetsOf(offsetsFrom(0, remoteTotal), idx)[k],
      batch |-> batchOf(idx)]]

requestsOf(offs, idx) ==
  [k \in 1..Len(chunkOffsetsOf(offs, idx)) |->
     [off |-> chunkOffsetsOf(offs, idx)[k], batch |-> batchOf(idx)]]

pendingSlots(offs, idx) ==
  [k \in 1..Len(chunkOffsetsOf(offs, idx)) |->
     [off |-> chunkOffsetsOf(offs, idx)[k], st |-> "pending", n |-> 0]]

Range(f) == {f[k] : k \in DOMAIN f}

\* chunkOffsets.map(offset => fetchChunk(offset)): every request of the
\* batch is issued before the loop awaits Promise.all
StartBatch(offs, idx) ==
  /\ i' = idx
  /\ chunkResults' = pendingSlots(offs, idx)
  /\ issued' = issued \o requestsOf(offs, idx)

\* fetchAll threw, the catch of the handler returns the failure text; the
\* locals chunkResults and allRecords of fetchAll are gone
Throw ==
  /\ fetchResult' = "threw"
  /\ response' = Failure
  /\ pc' = "done"
  /\ chunkResults' = <<>>
  /\ allRecords' = <<>>

\* fetchAll returned recs, the handler filters and formats them
Return(recs) ==
  /\ fetchResult' = "returned"
  /\ pc' = "done"
  /\ \E kept \in Kept(tool, localFilter, Length(recs)) :
       response' = handlerResponse(tool, Length(recs), kept)

\* a tool is called: the handler runs up to its first await, where the
\* count probe (or the single request of get_311_requests) is in flight
Invoke(t, f, lim) ==
  /\ pc = "idle"
  /\ tool' = t
  /\ localFilter' = f
  /\ limit' = lim
  /\ pc' = IF t = "sr311" THEN "request" ELSE "probe"
  /\ probes' = IF t = "sr311" THEN 0 ELSE 1
  /\ UNCHANGED <<remoteTotal, changes, total, offsets, i, chunkResults,
                 allRecords, fetchResult, response, inflight, issued,
                 faults, probed, outOfOrder>>

\* the count probe settles: fetchAll throws, returns [] or starts the
\* first batch
ProbeResponds(resp) ==
  /\ pc = "probe"
  /\ probed' = resp
  /\ faults' = IF IsRemoteError(resp) THEN faults \cup {"probe"} ELSE faults
  /\ IF countProbe(resp).threw
       THEN /\ Throw
            /\ UNCHANGED <<total, offsets, i, inflight, issued>>
       ELSE /\ total' = countProbe(resp).total
            /\ IF countProbe(resp).total = 0
                 THEN /\ Return(<<>>)
                      /\ UNCHANGED <<offsets, i, chunkResults, allRecords,
                                     inflight, issued>>
                 ELSE /\ offsets' = offsetsFrom(0, countProbe(resp).total)
                      /\ StartBatch(offsets', 0)
                      /\ inflight' = Range(requestsOf(offsets', 0))
                      /\ pc' = "paging"
                      /\ UNCHANGED <<allRecords, fetchResult, response>>
  /\ UNCHANGED <<remoteTotal, changes, tool, localFilter, limit, probes,
                 outOfOrder>>

\* slot of the current batch that request r fills, 0 when r is not awaited
slotOf(r) ==
  IF fetchResult = "none" /\ r.batch = batchOf(i)
       /\ \E k \in 1..Len(chunkResults) : chunkResults[k].off = r.off
    THEN CHOOSE k \in 1..Len(chunkResults) : chunkResults[k].off = r.off
    ELSE 0

\* a page request settles.  A rejection rejects Promise.all and fetchAll
\* throws; the last resolution of the batch resumes the loop, which
\* appends the batch and starts the next batch or returns.  A request that
\* settles after fetchAll threw changes nothing.
PageResponds(r, resp) ==
  /\ r \in inflight
  /\ faults' = IF IsRemoteError(resp) THEN faults \cup {"page"} ELSE faults
  /\ IF slotOf(r) = 0
       THEN /\ inflight' = inflight \ {r}
            /\ UNCHANGED <<i, chunkResults, allRecords, fetchResult,
                           response, pc, issued, outOfOrder>>
       ELSE LET k == slotOf(r)
                out == fetchChunk(tool, resp)
                slots == [chunkResults EXCEPT
                            ![k] = [off |-> r.off, st |-> "resolved",
                                    n |-> out.n]]
            IN
            /\ outOfOrder' =
                 (outOfOrder \/ \E q \in inflight : q.off < r.off)
            /\ IF out.rejected
                 THEN /\ Throw
                      /\ inflight' = inflight \ {r}
                      /\ UNCHANGED <<i, issued>>
                 ELSE IF ~allResolved(slots)
                 THEN /\ chunkResults' = slots
                      /\ inflight' = inflight \ {r}
                      /\ UNCHANGED <<i, allRecords, fetchResult, response,
                                     pc, issued>>
                 ELSE /\ allRecords' = pushAll(allRecords, slots)
                      /\ IF nextIndex(i) < Len(offsets)
                           THEN /\ StartBatch(offsets, nextIndex(i))
                                /\ inflight' =
                                     (inflight \ {r}) \cup
                                     Range(requestsOf(offsets, nextIndex(i)))
                                /\ UNCHANGED <<fetchResult, response, pc>>
                           ELSE /\ Return(allRecords')
                                /\ chunkResults' = slots
                                /\ inflight' = inflight \ {r}
                                /\ UNCHANGED <<i, issued>>
  /\ UNCHANGED <<remoteTotal, changes, tool, localFilter, limit, total,
                 offsets, probes, probed>>

\* the single request of get_311_requests settles and the handler ends
RequestResponds(resp) ==
  /\ pc = "request"
  /\ faults' = IF IsRemoteError(resp) THEN faults \cup {"request"} ELSE faults
  /\ pc' = "done"
  /\ \E kept \in Kept(tool, localFilter, resp.n) :
       response' = get_311_requests(resp, kept)
  /\ UNCHANGED <<remoteTotal, changes, tool, localFilter, limit, total,
                 offsets, i, chunkResults, allRecords, fetchResult,
                 inflight, issued, probes, probed, outOfOrder>>

\* the upstream dataset changes between the probe and a page fetch
DatasetChanges(rt) ==
  /\ pc = "paging"
  /\ changes < MaxChanges
  /\ rt # remoteTotal
  /\ remoteTotal' = rt
  /\ changes' = changes + 1
  /\ UNCHANGED <<tool, localFilter, limit, pc, total, offsets, i,
                 chunkResults, allRecords, fetchResult, response, inflight,
                 issued, probes, faults, probed, outOfOrder>>

DoInvoke ==
  \E t \in Tools, f \in BOOLEAN, lim \in Limits :
    /\ (t # "sr311" => lim = 10)
    /\ (t \in {"permits", "food", "checkbook"} => ~f)
    /\ Invoke(t, f, lim)
    /\ UNCHANGED <<normalizeVars, filterVars, summaryVars, ckanVars, isoVars>>

DoProbeResponds ==
  \E resp \in Responses(remoteTotal) \cup {UnsuccessfulWithResult(0)} :
    /\ ProbeResponds(resp)
    /\ UNCHANGED <<normalizeVars, filterVars, summaryVars, ckanVars, isoVars>>

DoPageResponds ==
  \E r \in inflight :
    \E resp \in Responses(PageLen(r.off, PAGE_SIZE, remoteTotal)) :
      /\ PageResponds(r, resp)
      /\ UNCHANGED <<normalizeVars, filterVars, summaryVars, ckanVars, isoVars>>

DoRequestResponds ==
  \E resp \in Responses(PageLen(0, limit, remoteTotal)) :
    /\ RequestResponds(resp)
    /\ UNCHANGED <<normalizeVars, filterVars, summaryVars, ckanVars, isoVars>>

DoDatasetChanges ==
  \E rt \in ChangedTotals(remoteTotal) :
    /\ DatasetChanges(rt)
    /\ UNCHANGED <<normalizeVars, filterVars, summaryVars, ckanVars, isoVars>>

Next ==
  \/ DoInvoke
  \/ DoProbeResponds
  \/ DoPageResponds
  \/ DoRequestResponds
  \/ DoDatasetChanges

Spec == Init /\ [][Next]_vars

\* ---------------------------------------------------------------------
\* Strings: a string is the sequence of its characters
\* ---------------------------------------------------------------------
LowerCase ==
  <<"a", "b", "c", "d", "e", "f", "g", "h", "i", "j", "k", "l", "m",
    "n", "o", "p", "q", "r", "s", "t", "u", "v", "w", "x", "y", "z">>

UpperCase ==
  <<"A", "B", "C", "D", "E", "F", "G", "H", "I", "J", "K", "L", "M",
    "N", "O", "P", "Q", "R", "S", "T", "U", "V", "W", "X", "Y", "Z">>

Digits == {"0", "1", "2", "3", "4", "5", "6", "7", "8", "9"}

UpperOf ==
  [c \in {LowerCase[k] : k \in 1..26} |->
     UpperCase[CHOOSE k \in 1..26 : LowerCase[k] = c]]

toUpperChar(c) == IF c \in DOMAIN UpperOf THEN UpperOf[c] ELSE c

\* String.prototype.toUpperCase
toUpperCase(s) == [k \in 1..Len(s) |-> toUpperChar(s[k])]

\* a character of the class \w
WordChars ==
  {LowerCase[k] : k \in 1..26} \cup {UpperCase[k] : k \in 1..26}
    \cup Digits \cup {"_"}

IsWordChar(c) == c \in WordChars

IsWordAt(s, k) == k \in 1..Len(s) /\ IsWordChar(s[k])

\* the assertion \b between s[k] and s[k + 1]
boundary(s, k) == IsWordAt(s, k) # IsWordAt(s, k + 1)

\* one pattern character under the flag i; "." is the wildcard
matchChar(p, c) ==
  IF p = "." THEN c \notin {"\n", "\r"} ELSE toUpperChar(p) = toUpperChar(c)

\* /\bpat\b/i matches s at position p
matchAt(s, pat, p) ==
  /\ p + Len(pat) - 1 <= Len(s)
  /\ boundary(s, p - 1)
  /\ \A j \in 1..Len(pat) : matchChar(pat[j], s[p + j - 1])
  /\ boundary(s, p + Len(pat) - 1)

\* s.replace(/\bpat\b/gi, rep): the matches are found from left to right
\* in s, and the search resumes after each match
RECURSIVE replaceFrom(_, _, _, _)
replaceFrom(s, pat, rep, p) ==
  IF p > Len(s) THEN <<>>
  ELSE IF matchAt(s, pat, p)
    THEN rep \o replaceFrom(s, pat, rep, p + Len(pat))
    ELSE <<s[p]>> \o replaceFrom(s, pat, rep, p + 1)

replaceWord(s, pat, rep) == replaceFrom(s, pat, rep, 1)

\* s.replace(/\./g, '')
removePeriods(s) == SelectSeq(s, LAMBDA c : c # ".")

RECURSIVE trimStart(_)
trimStart(s) ==
  IF s # <<>> /\ Head(s) = " " THEN trimStart(Tail(s)) ELSE s

RECURSIVE trimEnd(_)
trimEnd(s) ==
  IF s # <<>> /\ s[Len(s)] = " "
    THEN trimEnd(SubSeq(s, 1, Len(s) - 1))
    ELSE s

\* String.prototype.trim
trim(s) == trimEnd(trimStart(s))

\* s.includes(t)
includes_proper(s, t) ==
  /\ t # <<>>
  /\ \E p \in 1..(Len(s) - Len(t) + 1) : SubSeq(s, p, p + Len(t) - 1) = t

includes(s, t) ==
  \E p \in 1..(Len(s) - Len(t) + 1) : SubSeq(s, p, p + Len(t) - 1) = t

\* ---------------------------------------------------------------------
\* normalizeAddress
\* ---------------------------------------------------------------------
normalizeAddress(a) ==
  LET s1 == removePeriods(a)
      s2 == replaceWord(s1, <<"S", "T", "R", "E", "E", "T">>, <<"S", "T">>)
      s3 == replaceWord(s2, <<"S", "t">>, <<"S", "T">>)
      s4 == replaceWord(s3, <<"S", "T">>, <<"S", "T">>)
      s5 == replaceWord(s4, <<"S", "t", ".">>, <<"S", "T">>)
      s6 == replaceWord(s5, <<"A", "V", "E", "N", "U", "E">>, <<"A", "V">>)
      s7 == replaceWord(s6, <<"A", "v", "e">>, <<"A", "V">>)
      s8 == replaceWord(s7, <<"A", "v", "e", "n", "u", "e">>, <<"A", "V">>)
      s9 == replaceWord(s8, <<"A", "V">>, <<"A", "V">>)
      s10 == replaceWord(s9, <<"A", "V", "E">>, <<"A", "V">>)
  IN trim(toUpperCase(s10))

\* Addresses are built from tokens: the spellings of the two street
\* suffixes, other words, and separators.
StreetSpellings ==
  {<<"S", "T", "R", "E", "E", "T">>, <<"S", "t">>, <<"S", "t", ".">>,
   <<"S", "T">>}

AvenueSpellings ==
  {<<"A", "V", "E", "N", "U", "E">>, <<"A", "v", "e">>,
   <<"A", "v", "e", "n", "u", "e">>, <<"A", "V", "E">>, <<"A", "V">>}

Space == <<" ">>

OtherTokens == {<<"6", "5">>, <<"A">>, Space, <<".">>}

\* the tokens of the addresses tried; a respelling reaches the other
\* spellings
Vocabulary ==
  {<<"S", "T", "R", "E", "E", "T">>, <<"S", "t", ".">>, <<"S", "T">>,
   <<"A", "v", "e", "n", "u", "e">>, <<"A", "v", "e">>, <<"A", "V">>}
    \cup OtherTokens

\* an address has at most MaxTokens tokens
MaxTokens == 3

\* a respelling changes at most MaxEdits tokens
MaxEdits == 2

TokenSeqs == UNION {[1..n -> Vocabulary] : n \in 0..MaxTokens}

Commonwealth65 ==
  <<<<"6", "5">>, Space,
    <<"C", "o", "m", "m", "o", "n", "w", "e", "a", "l", "t", "h">>, Space,
    <<"A", "v", "e", "n", "u", "e">>>>

RECURSIVE Flatten(_)
Flatten(tokens) ==
  IF tokens = <<>> THEN <<>> ELSE Head(tokens) \o Flatten(Tail(tokens))

\* token k stands as a whole word: spaces or the ends of the address
\* around it
IsWholeWord(tokens, k) ==
  /\ IF k = 1 THEN TRUE ELSE tokens[k - 1] = Space
  /\ IF k = Len(tokens) THEN TRUE ELSE tokens[k + 1] = Space

SpellingsOf(w) ==
  IF w \in StreetSpellings THEN StreetSpellings
  ELSE IF w \in AvenueSpellings THEN AvenueSpellings
  ELSE {w}

\* a whole-word street suffix of the variant is spelled another way
Respell(k, w) ==
  /\ ~normalized.done
  /\ edits < MaxEdits
  /\ k \in 1..Len(variant)
  /\ IsWholeWord(variant, k)
  /\ w \in SpellingsOf(variant[k]) \ {variant[k]}
  /\ variant' = [variant EXCEPT ![k] = w]
  /\ edits' = edits + 1
  /\ UNCHANGED <<address, normalized>>

\* the letters of a token of the variant change to upper case
ChangeCase(k) ==
  /\ ~normalized.done
  /\ edits < MaxEdits
  /\ k \in 1..Len(variant)
  /\ toUpperCase(variant[k]) # variant[k]
  /\ variant' = [variant EXCEPT ![k] = toUpperCase(variant[k])]
  /\ edits' = edits + 1
  /\ UNCHANGED <<address, normalized>>

\* a period of the variant is dropped
DropPeriod(k) ==
  /\ ~normalized.done
  /\ edits < MaxEdits
  /\ k \in 1..Len(variant)
  /\ variant[k] = <<".">>
  /\ variant' = SubSeq(variant, 1, k - 1) \o SubSeq(variant, k + 1, Len(variant))
  /\ edits' = edits + 1
  /\ UNCHANGED <<address, normalized>>

\* normalizeAddress is called on the address, on the variant, and on its
\* own result
Normalize ==
  /\ ~normalized.done
  /\ normalized' =
       [done |-> TRUE,
        addr |-> normalizeAddress(Flatten(address)),
        var |-> normalizeAddress(Flatten(variant)),
        twice |-> normalizeAddress(normalizeAddress(Flatten(address)))]
  /\ UNCHANGED <<address, variant, edits>>

NormalizeInit ==
  /\ address \in TokenSeqs \cup {Commonwealth65}
  /\ variant = address
  /\ edits = 0
  /\ normalized = NotNormalized
  /\ remoteTotal = 0
  /\ PagingIdle
  /\ IsoIdle
  /\ FilterIdle
  /\ SummaryIdle
  /\ CkanIdle

DoRespell ==
  \E k \in 1..Len(variant), w \in StreetSpellings \cup AvenueSpellings :
    /\ Respell(k, w)
    /\ UNCHANGED <<pagingVars, filterVars, summaryVars, ckanVars, isoVars>>

DoChangeCase ==
  \E k \in 1..Len(variant) :
    /\ ChangeCase(k)
    /\ UNCHANGED <<pagingVars, filterVars, summaryVars, ckanVars, isoVars>>

DoDropPeriod ==
  \E k \in 1..Len(variant) :
    /\ DropPeriod(k)
    /\ UNCHANGED <<pagingVars, filterVars, summaryVars, ckanVars, isoVars>>

DoNormalize ==
  /\ Normalize
  /\ UNCHANGED <<pagingVars, filterVars, summaryVars, ckanVars, isoVars>>

NormalizeNext == DoRespell \/ DoChangeCase \/ DoDropPeriod \/ DoNormalize

SpecNormalize == NormalizeInit /\ [][NormalizeNext]_vars

\* ---------------------------------------------------------------------
\* Field values of a record, and the local filters of the handlers
\* ---------------------------------------------------------------------
\* A field of a record is absent, null, a string or a number.
Absent == [t |-> "absent", s |-> <<>>, v |-> 0]

Null == [t |-> "null", s |-> <<>>, v |-> 0]

Str(s) == [t |-> "string", s |-> s, v |-> 0]

Num(v) == [t |-> "number", s |-> <<>>, v |-> v]

\* a value that is not undefined, null, "" or 0
Truthy(x) == (x.t = "string" /\ x.s # <<>>) \/ (x.t = "number" /\ x.v # 0)

\* x || d
Or(x, d) == IF Truthy(x) THEN x ELSE d

\* the callback of allRecords.filter in get_building_permits_fuzzy_parallel
permitMatch_exact(p, searchNorm) ==
  LET recNorm == normalizeAddress(Or(p.address, Str(<<>>)).s)
  IN recNorm = searchNorm

permitMatch(p, searchNorm) ==
  LET recNorm == normalizeAddress(Or(p.address, Str(<<>>)).s)
  IN \/ recNorm = searchNorm
     \/ includes(recNorm, searchNorm)
     \/ includes(searchNorm, recNorm)

filterPermits(recs, a) ==
  SelectSeq(recs, LAMBDA p : permitMatch(p, normalizeAddress(a)))

\* the callback of requests.filter in get_311_requests
sr311Match_forgiving(r, normAddr) ==
  LET recAddr ==
        normalizeAddress(
          Or(r.location_street_name, Or(r.location, Str(<<>>))).s)
  IN recAddr = normAddr \/ includes(recAddr, normAddr)
       \/ includes(normAddr, recAddr)

sr311Match(r, normAddr) ==
  LET recAddr ==
        normalizeAddress(
          Or(r.location_street_name, Or(r.location, Str(<<>>))).s)
  IN recAddr = normAddr

\* if (address) requests = requests.filter(...)
filter311(recs, a) ==
  IF a # <<>>
    THEN SelectSeq(recs, LAMBDA r : sr311Match(r, normalizeAddress(a)))
    ELSE recs

\* the addresses asked for
FilterQueries ==
  {<<"1", " ", "S", "t">>,
   <<"2", "1", " ", "S", "T", "R", "E", "E", "T">>,
   <<"2", " ", "A", "V", "E", "N", "U", "E">>,
   <<>>}

\* the address field of the permit records
AddressValues ==
  {Absent, Null, Str(<<>>), Str(<<" ">>),
   Str(<<"1", " ", "S", "T", "R", "E", "E", "T">>),
   Str(<<"2", "1", " ", "S", "t", ".">>),
   Str(<<"1">>),
   Str(<<"2", " ", "A", "v", "e">>)}

\* the location fields of the 311 records
StreetNameValues ==
  {Absent, Str(<<>>),
   Str(<<"1", " ", "S", "T", "R", "E", "E", "T">>),
   Str(<<"2", "1", " ", "S", "t", ".">>),
   Str(<<"2", " ", "A", "v", "e">>)}

LocationValues ==
  {Absent, Str(<<"1", " ", "S", "t">>), Str(<<"2", " ", "A", "v", "e">>)}

PermitRecords ==
  {[address |-> a, location_street_name |-> Absent, location |-> Absent] :
     a \in AddressValues}

SrRecords ==
  {[address |-> Absent, location_street_name |-> n, location |-> l] :
     n \in StreetNameValues, l \in LocationValues}

\* a handler filters at most MaxRecords records
MaxRecords == 2

FilterInputs ==
  UNION {[1..n -> PermitRecords \cup SrRecords] : n \in 0..MaxRecords}

\* get_building_permits_fuzzy_parallel filters the records it fetched
FilterPermits ==
  /\ ~matches.done
  /\ matches' =
       [done |-> TRUE, tool |-> "permits",
        kept |-> filterPermits(records, query)]
  /\ UNCHANGED <<query, records>>

\* get_311_requests filters the records of its request
Filter311 ==
  /\ ~matches.done
  /\ matches' =
       [done |-> TRUE, tool |-> "sr311", kept |-> filter311(records, query)]
  /\ UNCHANGED <<query, records>>

FilterInit ==
  /\ query \in FilterQueries
  /\ records \in FilterInputs
  /\ matches = NotFiltered
  /\ remoteTotal = 0
  /\ PagingIdle
  /\ IsoIdle
  /\ NormalizeIdle
  /\ SummaryIdle
  /\ CkanIdle

DoFilterPermits ==
  /\ FilterPermits
  /\ UNCHANGED <<pagingVars, normalizeVars, summaryVars, ckanVars, isoVars>>

DoFilter311 ==
  /\ Filter311
  /\ UNCHANGED <<pagingVars, normalizeVars, summaryVars, ckanVars, isoVars>>

FilterNext == DoFilterPermits \/ DoFilter311

SpecFilter == FilterInit /\ [][FilterNext]_vars

\* ---------------------------------------------------------------------
\* Aggregation: countAndSummarize and the vendor totals of the checkbook
\* ---------------------------------------------------------------------
\* A row is a record seen through its grouping field (r[field],
\* r["Vendor Name"]) and its r["Monetary Amount"].  An object such as
\* counts or totals is the sequence of its properties [key, metric] in
\* the order of their creation.
UNKNOWN == <<"U", "N", "K", "N", "O", "W", "N">>

DigitValue ==
  [c \in Digits |->
     CHOOSE v \in 0..9 :
       <<"0", "1", "2", "3", "4", "5", "6", "7", "8", "9">>[v + 1] = c]

\* the number a sequence of digits writes
RECURSIVE ValueOf(_)
ValueOf(ds) ==
  IF ds = <<>>
    THEN 0
    ELSE ValueOf(SubSeq(ds, 1, Len(ds) - 1)) * 10 + DigitValue[ds[Len(ds)]]

\* the longest prefix of digits
digitPrefix(s) ==
  LET n == CHOOSE k \in 0..Len(s) :
             /\ \A j \in 1..k : s[j] \in Digits
             /\ (k < Len(s) => s[k + 1] \notin Digits)
  IN SubSeq(s, 1, n)

\* a property key that is an array index ("0", "7", "10", not "07"):
\* Object.entries lists these first, in ascending numeric order
isIndexKey(key) ==
  /\ key # <<>>
  /\ \A k \in 1..Len(key) : key[k] \in Digits
  /\ (Len(key) > 1 => key[1] # "0")

\* obj[key] = (obj[key] || 0) + by
addTo_fromOne(obj, key, by) ==
  IF \E k \in 1..Len(obj) : obj[k].key = key
    THEN [k \in 1..Len(obj) |->
            IF obj[k].key = key
              THEN [obj[k] EXCEPT !.metric = @ + by]
              ELSE obj[k]]
    ELSE Append(obj, [key |-> key, metric |-> by + 1])

addTo(obj, key, by) ==
  IF \E k \in 1..Len(obj) : obj[k].key = key
    THEN [k \in 1..Len(obj) |->
            IF obj[k].key = key
              THEN [obj[k] EXCEPT !.metric = @ + by]
              ELSE obj[k]]
    ELSE Append(obj, [key |-> key, metric |-> by])

\* the index keys of an object in ascending order
RECURSIVE indexEntries(_)
indexEntries(obj) ==
  IF obj = <<>>
    THEN <<>>
    ELSE LET e == obj[Len(obj)]
             before == indexEntries(SubSeq(obj, 1, Len(obj) - 1))
             p == Cardinality({k \in 1..Len(before) :
                                 ValueOf(before[k].key) < ValueOf(e.key)})
         IN IF isIndexKey(e.key)
              THEN SubSeq(before, 1, p) \o <<e>>
                     \o SubSeq(before, p + 1, Len(before))
              ELSE before

\* Object.entries(obj)
ObjectEntries(obj) ==
  indexEntries(obj) \o SelectSeq(obj, LAMBDA e : ~isIndexKey(e.key))

\* .sort((a, b) => b[1] - a[1]): stable, descending metric
RECURSIVE sortDescending(_)
sortDescending(es) ==
  IF es = <<>>
    THEN <<>>
    ELSE LET e == es[Len(es)]
             before == sortDescending(SubSeq(es, 1, Len(es) - 1))
             p == Cardinality({k \in 1..Len(before) :
                                 before[k].metric >= e.metric})
         IN SubSeq(before, 1, p) \o <<e>>
              \o SubSeq(before, p + 1, Len(before))

\* .slice(0, top)
slice_oneMore(es, n) == SubSeq(es, 1, Min(n + 1, Len(es)))

slice(es, n) == SubSeq(es, 1, Min(n, Len(es)))

\* .map(([val, count], idx) => `${idx + 1}. ${val}: ${count}`)
ranked(es) ==
  [k \in 1..Len(es) |->
     [rank |-> k, key |-> es[k].key, metric |-> es[k].metric]]

\* Object.entries(obj).sort(...).slice(0, top).map(...)
topEntries(obj, n) == ranked(slice(sortDescending(ObjectEntries(obj)), n))

\* const val = (r[field] || "UNKNOWN").trim(): .trim is not a function
\* of a number
keyOf(r) ==
  LET x == Or(r.field, Str(UNKNOWN))
  IN [threw |-> x.t # "string", key |-> trim(x.s)]

\* the loop of countAndSummarize over records[k..]
RECURSIVE countLoop(_, _, _)
countLoop(recs, k, counts) ==
  IF k > Len(recs)
    THEN [threw |-> FALSE, obj |-> counts]
    ELSE IF keyOf(recs[k]).threw
           THEN [threw |-> TRUE, obj |-> <<>>]
           ELSE countLoop(recs, k + 1, addTo(counts, keyOf(recs[k]).key, 1))

countAndSummarize(recs, n) ==
  LET counted == countLoop(recs, 1, <<>>)
  IN [threw |-> counted.threw,
      entries |-> IF counted.threw THEN <<>> ELSE topEntries(counted.obj, n)]

\* .replace(/[^0-9.-]+/g, "")
stripAmount_keep(s) == s

stripAmount(s) == SelectSeq(s, LAMBDA c : c \in Digits \cup {".", "-"})

\* parseFloat of a string of digits, periods and minus signs, in cents:
\* an optional sign, digits, an optional period and digits; whatever
\* follows is ignored, and a string without a digit there is NaN
parseFloat(s) ==
  LET neg == s # <<>> /\ s[1] = "-"
      body == IF neg THEN Tail(s) ELSE s
      whole == digitPrefix(body)
      rest == SubSeq(body, Len(whole) + 1, Len(body))
      frac == IF rest # <<>> /\ rest[1] = "."
                THEN digitPrefix(Tail(rest))
                ELSE <<>>
      cents == ValueOf(whole) * 100
                 + ValueOf(SubSeq(frac \o <<"0", "0">>, 1, 2))
  IN [nan |-> whole = <<>> /\ frac = <<>>,
      cents |-> IF neg THEN 0 - cents ELSE cents]

\* const amt = parseFloat((r["Monetary Amount"] || "0").replace(...));
\* ... (isNaN(amt) ? 0 : amt): .replace is not a function of a number
amountOf(r) ==
  LET x == Or(r.amount, Str(<<"0">>))
      amt == parseFloat(stripAmount(x.s))
  IN [threw |-> x.t # "string",
      cents |-> IF amt.nan THEN 0 ELSE amt.cents]

\* the loop of get_checkbook_records over records[k..]
RECURSIVE totalsLoop(_, _, _)
totalsLoop(recs, k, totals) ==
  IF k > Len(recs)
    THEN [threw |-> FALSE, obj |-> totals]
    ELSE IF keyOf(recs[k]).threw \/ amountOf(recs[k]).threw
           THEN [threw |-> TRUE, obj |-> <<>>]
           ELSE totalsLoop(recs, k + 1,
                           addTo(totals, keyOf(recs[k]).key,
                                 amountOf(recs[k]).cents))

topVendors(recs, n) ==
  LET summed == totalsLoop(recs, 1, <<>>)
  IN [threw |-> summed.threw,
      entries |-> IF summed.threw THEN <<>> ELSE topEntries(summed.obj, n)]

\* the values of the grouping field
FieldValues ==
  {Absent, Null, Str(<<>>), Str(<<" ">>), Str(<<"A">>), Str(<<"A", " ">>),
   Str(<<"B">>), Str(<<"1">>), Num(0), Num(7)}

\* the values of the Monetary Amount
AmountValues ==
  {Absent, Str(<<"$", "1", "0", ".", "0", "0">>), Str(<<"a", "b", "c">>),
   Str(<<"$", "5">>), Str(<<"-", "2", ".", "5", "0">>), Num(7)}

CountRows == {[field |-> f, amount |-> Absent] : f \in FieldValues}

SumRows ==
  {[field |-> Str(v), amount |-> a] :
     v \in {<<"A">>, <<"B">>}, a \in AmountValues}

\* 25 crime reports of 3 offense types
Offenses25 ==
  [k \in 1..25 |->
     [field |-> Str(<<<<"A">>, <<"B">>, <<"C">>>>[(k % 3) + 1]),
      amount |-> Absent]]

\* a summary is made of at most MaxRows records
MaxRows == 3

SummaryInputs ==
  UNION {[1..n -> CountRows] \cup [1..n -> SumRows] : n \in 0..MaxRows}
    \cup {Offenses25}

Tops == {1, 2, 10}

\* get_crime_reports summarizes the records its filters kept
Summarize ==
  /\ ~summary.done
  /\ summary' =
       [done |-> TRUE, tool |-> "count",
        threw |-> countAndSummarize(rows, top).threw,
        entries |-> countAndSummarize(rows, top).entries]
  /\ UNCHANGED <<rows, top>>

\* get_checkbook_records totals the records it fetched; it has returned
\* before if there is none
SumVendors ==
  /\ ~summary.done
  /\ rows # <<>>
  /\ summary' =
       [done |-> TRUE, tool |-> "sum",
        threw |-> topVendors(rows, top).threw,
        entries |-> topVendors(rows, top).entries]
  /\ UNCHANGED <<rows, top>>

SummaryInit ==
  /\ rows \in SummaryInputs
  /\ top \in Tops
  /\ summary = NotSummarized
  /\ remoteTotal = 0
  /\ PagingIdle
  /\ IsoIdle
  /\ NormalizeIdle
  /\ FilterIdle
  /\ CkanIdle

DoSummarize ==
  /\ Summarize
  /\ UNCHANGED <<pagingVars, normalizeVars, filterVars, ckanVars, isoVars>>

DoSumVendors ==
  /\ SumVendors
  /\ UNCHANGED <<pagingVars, normalizeVars, filterVars, ckanVars, isoVars>>

SummaryNext == DoSummarize \/ DoSumVendors

SpecSummary == SummaryInit /\ [][SummaryNext]_vars

\* ---------------------------------------------------------------------
\* fetchAllCkanRecords: one page after another
\* ---------------------------------------------------------------------
\* const limit = 100
CkanLimit == 100

\* let total = Infinity
Infinity == 0 - 1

\* offset < total
lessThan(o, t) == t = Infinity \/ o < t

\* total = data.result.total || (offset + records.length)
totalAfter(reported, o, n) == IF reported # 0 THEN reported ELSE o + n

\* if (records.length < limit) break
isLastPage_never(n) == FALSE

isLastPage(n) == n < CkanLimit

\* the upstream holds at most MaxCkanPages full pages
MaxCkanPages == 5

CkanRowCounts == {k * (CkanLimit \div 2) : k \in 0..(2 * MaxCkanPages)}

\* result.total of the responses: none, the rows the upstream holds, or
\* a page more than it serves
ReportedTotals(held) == {0, held, held + CkanLimit}

\* the call: the loop is entered and the first page is requested
CkanInvoke ==
  /\ ckanPc = "idle"
  /\ offset' = 0
  /\ ckanTotal' = Infinity
  /\ ckanRecords' = <<>>
  /\ ckanLog' = <<0>>
  /\ ckanPc' = "fetching"
  /\ UNCHANGED <<ckanRows, ckanReported>>

\* the response to the request at offset: a throw, or the body of the
\* loop and then the next request or the return
CkanResponds(resp) ==
  /\ ckanPc = "fetching"
  /\ IF checkedChunk(resp).rejected
       THEN /\ ckanPc' = "threw"
            /\ UNCHANGED <<offset, ckanTotal, ckanRecords, ckanLog>>
       ELSE /\ ckanTotal' = totalAfter(ckanReported, offset, resp.n)
            /\ ckanRecords' =
                 IF resp.n > 0
                   THEN Append(ckanRecords, <<offset, resp.n>>)
                   ELSE ckanRecords
            /\ offset' = offset + resp.n
            /\ IF isLastPage(resp.n) \/ ~lessThan(offset', ckanTotal')
                 THEN ckanPc' = "returned" /\ UNCHANGED ckanLog
                 ELSE ckanPc' = "fetching" /\ ckanLog' = Append(ckanLog, offset')
  /\ UNCHANGED <<ckanRows, ckanReported>>

CkanInit ==
  /\ ckanRows \in CkanRowCounts
  /\ ckanReported \in ReportedTotals(ckanRows)
  /\ ckanPc = "idle"
  /\ offset = 0
  /\ ckanTotal = 0
  /\ ckanRecords = <<>>
  /\ ckanLog = <<>>
  /\ remoteTotal = 0
  /\ PagingIdle
  /\ IsoIdle
  /\ NormalizeIdle
  /\ FilterIdle
  /\ SummaryIdle

DoCkanInvoke ==
  /\ CkanInvoke
  /\ UNCHANGED <<pagingVars, normalizeVars, filterVars, summaryVars, isoVars>>

DoCkanResponds ==
  /\ \E resp \in Responses(PageLen(offset, CkanLimit, ckanRows)) :
       CkanResponds(resp)
  /\ UNCHANGED <<pagingVars, normalizeVars, filterVars, summaryVars, isoVars>>

CkanNext == DoCkanInvoke \/ DoCkanResponds

SpecCkan == CkanInit /\ [][CkanNext]_vars

\* the function is called and every fetch it awaits settles
SpecCkanLive == SpecCkan /\ WF_vars(CkanNext)

\* ---------------------------------------------------------------------
\* Two calls at once
\* ---------------------------------------------------------------------
\* Call 1 is fetchAllPermitsParallel, call 2 fetchAllCheckbookRecords,
\* each on a dataset of its own.  A step is one turn of the event loop,
\* the resumption of one of the calls.
Invocations == {1, 2}

isoTool(v) == IF v = 1 THEN "permits" ELSE "checkbook"

\* the activation that holds the locals of call v: total, offsets, i and
\* allRecords are declared inside the function
frameOf_shared(v) == 1

frameOf(v) == v

\* the datasets: empty, a page and a half, and more than one batch
IsoTotals ==
  {0, PAGE_SIZE + (PAGE_SIZE \div 2),
   MaxPages * PAGE_SIZE - (PAGE_SIZE \div 2)}

\* what the upstream answers to a call: its rows, and whether the probe,
\* the first page or the last page gets an error status
IsoPlans ==
  {pl \in [rows : IsoTotals, badProbe : BOOLEAN,
           badPages : {{}, {0}, {(MaxPages - 1) * PAGE_SIZE}}] :
     /\ pl.badProbe => pl.badPages = {}
     /\ \A o \in pl.badPages : o < pl.rows}

probeResponse(pl) == IF pl.badProbe THEN BadStatus ELSE Good(pl.rows)

pageResponse(pl, off) ==
  IF off \in pl.badPages
    THEN BadStatus
    ELSE Good(PageLen(off, PAGE_SIZE, pl.rows))

NoLocals == [total |-> 0, offsets |-> <<>>, i |-> 0, allRecords |-> <<>>]

NoResult == [st |-> "none", recs |-> <<>>]

Thrown == [st |-> "threw", recs |-> <<>>]

\* the pages recs, as records of the dataset of call v
tagged(v, recs) ==
  [k \in 1..Len(recs) |->
     [owner |-> v, off |-> recs[k].off, n |-> recs[k].n]]

\* call v resumes while the other call is under way
mixes(v) ==
  interleaved \/ \E u \in Invocations \ {v} : isoPc[u] \in {"probe", "paging"}

\* the call runs up to the await of its count probe
IsoInvoke(v) ==
  /\ isoPc[v] = "idle"
  /\ isoPc' = [isoPc EXCEPT ![v] = "probe"]
  /\ UNCHANGED <<isoPlan, isoLocals, isoBatch, isoResult, interleaved>>

\* the probe of call v settles: the call throws, returns [] or issues
\* its first batch
IsoProbeResponds(v) ==
  LET out == countProbe(probeResponse(isoPlan[v]))
      offs == offsetsFrom(0, out.total)
  IN
  /\ isoPc[v] = "probe"
  /\ interleaved' = mixes(v)
  /\ IF out.threw
       THEN /\ isoResult' = [isoResult EXCEPT ![v] = Thrown]
            /\ isoPc' = [isoPc EXCEPT ![v] = "done"]
            /\ UNCHANGED <<isoLocals, isoBatch>>
       ELSE IF out.total = 0
       THEN /\ isoLocals' = [isoLocals EXCEPT ![frameOf(v)].total = 0]
            /\ isoResult' =
                 [isoResult EXCEPT ![v] = [st |-> "returned", recs |-> <<>>]]
            /\ isoPc' = [isoPc EXCEPT ![v] = "done"]
            /\ UNCHANGED isoBatch
       ELSE /\ isoLocals' =
                 [isoLocals EXCEPT
                    ![frameOf(v)] =
                      [total |-> out.total, offsets |-> offs, i |-> 0,
                       allRecords |-> <<>>]]
            /\ isoBatch' = [isoBatch EXCEPT ![v] = pendingSlots(offs, 0)]
            /\ isoPc' = [isoPc EXCEPT ![v] = "paging"]
            /\ UNCHANGED isoResult
  /\ UNCHANGED isoPlan

\* promise k of the batch of call v settles.  A rejection makes the call
\* throw; the last resolution resumes the loop, which appends the batch
\* to allRecords and issues the next batch or returns; a promise that
\* settles after the call threw changes nothing.
IsoPageResponds(v, k) ==
  LET L == isoLocals[frameOf(v)]
      off == isoBatch[v][k].off
      out == fetchChunk(isoTool(v), pageResponse(isoPlan[v], off))
      slots == [isoBatch[v] EXCEPT
                  ![k] = [off |-> off,
                          st |-> IF out.rejected THEN "rejected"
                                                 ELSE "resolved",
                          n |-> out.n]]
      all == L.allRecords \o tagged(v, pushAll(<<>>, slots))
  IN
  /\ k \in 1..Len(isoBatch[v])
  /\ isoBatch[v][k].st = "pending"
  /\ interleaved' = mixes(v)
  /\ IF isoPc[v] = "done"
       THEN /\ isoBatch' = [isoBatch EXCEPT ![v] = slots]
            /\ UNCHANGED <<isoPc, isoLocals, isoResult>>
       ELSE IF out.rejected
       THEN /\ isoBatch' = [isoBatch EXCEPT ![v] = slots]
            /\ isoResult' = [isoResult EXCEPT ![v] = Thrown]
            /\ isoPc' = [isoPc EXCEPT ![v] = "done"]
            /\ UNCHANGED isoLocals
       ELSE IF ~allResolved(slots)
       THEN /\ isoBatch' = [isoBatch EXCEPT ![v] = slots]
            /\ UNCHANGED <<isoPc, isoLocals, isoResult>>
       ELSE IF nextIndex(L.i) < Len(L.offsets)
       THEN /\ isoLocals' =
                 [isoLocals EXCEPT
                    ![frameOf(v)] =
                      [L EXCEPT !.allRecords = all, !.i = nextIndex(L.i)]]
            /\ isoBatch' =
                 [isoBatch EXCEPT
                    ![v] = pendingSlots(L.offsets, nextIndex(L.i))]
            /\ UNCHANGED <<isoPc, isoResult>>
       ELSE /\ isoLocals' =
                 [isoLocals EXCEPT ![frameOf(v)] = [L EXCEPT !.allRecords = all]]
            /\ isoBatch' = [isoBatch EXCEPT ![v] = slots]
            /\ isoResult' =
                 [isoResult EXCEPT ![v] = [st |-> "returned", recs |-> all]]
            /\ isoPc' = [isoPc EXCEPT ![v] = "done"]
  /\ UNCHANGED isoPlan

IsoInit ==
  /\ isoPlan \in [Invocations -> IsoPlans]
  /\ isoPc = [v \in Invocations |-> "idle"]
  /\ isoLocals = [v \in Invocations |-> NoLocals]
  /\ isoBatch = [v \in Invocations |-> <<>>]
  /\ isoResult = [v \in Invocations |-> NoResult]
  /\ interleaved = FALSE
  /\ remoteTotal = 0
  /\ PagingIdle
  /\ NormalizeIdle
  /\ FilterIdle
  /\ SummaryIdle
  /\ CkanIdle

DoIsoInvoke ==
  \E v \in Invocations :
    /\ IsoInvoke(v)
    /\ UNCHANGED <<pagingVars, normalizeVars, filterVars, summaryVars,
                   ckanVars>>

DoIsoProbeResponds ==
  \E v \in Invocations :
    /\ IsoProbeResponds(v)
    /\ UNCHANGED <<pagingVars, normalizeVars, filterVars, summaryVars,
                   ckanVars>>

DoIsoPageResponds ==
  \E v \in Invocations :
    \E k \in 1..Len(isoBatch[v]) :
      /\ IsoPageResponds(v, k)
      /\ UNCHANGED <<pagingVars, normalizeVars, filterVars, summaryVars,
                     ckanVars>>

IsoNext == DoIsoInvoke \/ DoIsoProbeResponds \/ DoIsoPageResponds

SpecIsolation == IsoInit /\ [][IsoNext]_vars

\* ---------------------------------------------------------------------
\* Properties
\* ---------------------------------------------------------------------
InFlight == Cardinality(inflight)

CeilDiv(a, b) == (a + b - 1) \div b

NoResultKinds == {"none_found", "none_after_normalization"}

\* C1: during a call of a probe-based paginator at most PARALLEL_REQUESTS
\* page requests are issued and not yet settled, in every state, also
\* after a request of the batch has failed
C1_ConcurrencyBound == InFlight <= PARALLEL_REQUESTS

C1_Witness == InFlight = PARALLEL_REQUESTS /\ Len(offsets) > PARALLEL_REQUESTS

\* C2: when the probe succeeded with total T > 0 and no page request
\* failed, the requests issued are exactly the offsets 0, P, 2P, ...
\* below T, each once, ceil(T / P) of them; for T = 150 they are two
\* requests of the first batch
C2_ExactlyCeilRequests ==
  (fetchResult = "returned" /\ total > 0 /\ faults = {}) =>
    /\ Len(issued) = CeilDiv(total, PAGE_SIZE)
    /\ \A k \in 1..Len(issued) :
         issued[k].off = (k - 1) * PAGE_SIZE /\ issued[k].off < total
    /\ (total = 150 =>
          Len(issued) = 2 /\ \A k \in 1..Len(issued) : issued[k].batch = 0)

C2_Witness ==
  fetchResult = "returned" /\ total = 150 /\ faults = {} /\ Len(issued) = 2

\* C3: against a dataset that did not change since the probe, the
\* records a paginator returns are at most the total T the probe read
C3_AtMostTotal ==
  (fetchResult = "returned" /\ changes = 0) => Length(allRecords) <= total

C3_Witness ==
  /\ fetchResult = "returned"
  /\ changes = 0
  /\ total > PARALLEL_REQUESTS * PAGE_SIZE
  /\ Length(allRecords) = total

\* C4: once a page request got a non-2xx status or success: false, the
\* fetchAll call has failed and the caller got the failure text, no record
C4_PageFailureAborts ==
  "page" \in faults => (fetchResult = "threw" /\ response = Failure)

\* C5: when the count probe got a non-2xx status or success: false,
\* fetchAll has failed and no page request was issued
C5_ProbeFailureStops ==
  "probe" \in faults => (fetchResult = "threw" /\ issued = <<>>)

\* C6: when the count probe succeeded with total 0, fetchAll returned the
\* empty sequence, and the probe is the only request that was issued
C6_ZeroTotalEmpty ==
  probed = Good(0) =>
    /\ fetchResult = "returned"
    /\ allRecords = <<>>
    /\ response.kind = "none_found"
    /\ probes = 1
    /\ issued = <<>>
    /\ inflight = {}

C6_Witness == probed = Good(0) /\ pc = "done" /\ tool \in Paginators

\* C7: while a page request is in flight no request of a later batch has
\* been issued, and the offsets of a batch are all smaller than the
\* offsets of every later batch
C7_BatchesSequential ==
  /\ \A r \in inflight :
       \A k \in 1..Len(issued) : issued[k].batch <= r.batch
  /\ \A j, k \in 1..Len(issued) :
       issued[j].batch < issued[k].batch => issued[j].off < issued[k].off

C7_Witness ==
  /\ \E k \in 1..Len(issued) : issued[k].batch = 1
  /\ inflight # {}
  /\ outOfOrder

\* C8: the records concatenated so far are in ascending offset order in
\* every state, whatever the order in which the requests settled, and
\* against an unchanged dataset the result holds the page of every
\* offset, in the order of the offsets
C8_OffsetOrder ==
  /\ \A j, k \in 1..Len(allRecords) :
       j < k => allRecords[j].off < allRecords[k].off
  /\ (fetchResult = "returned" /\ changes = 0 /\ total > 0) =>
       /\ Len(allRecords) = Len(offsets)
       /\ \A k \in 1..Len(offsets) : allRecords[k].off = offsets[k]

C8_Witness ==
  fetchResult = "returned" /\ outOfOrder /\ Len(allRecords) >= 2

\* C9: no tool handler throws or rejects, whatever fails upstream
C9_HandlersNeverReject == response.kind # "rejected"

\* C10: a tool answers "No ... found" only when no upstream request got a
\* remote error, and once a request got a non-2xx status or
\* success: false the answer is the failure text
C10_EmptyIsNotError ==
  /\ response.kind \in NoResultKinds => faults = {}
  /\ (faults # {} /\ pc = "done") => response = Failure

\* C11: normalizeAddress is idempotent: normalizing its result again
\* gives the same string
C11_Idempotent == normalized.done => normalized.twice = normalized.addr

\* C12: an address and a respelling of it, which differs in the spelling
\* of whole-word street suffixes, in letter case or in periods, normalize
\* to the same string
C12_SynonymEquivalence == normalized.done => normalized.var = normalized.addr

\* the text of a field, the empty string when the field is absent
TextOf(x) == IF x.t = "string" THEN x.s ELSE <<>>

\* t occurs in s
Occurs(t, s) ==
  \E a, b \in 0..Len(s) :
    a + Len(t) + b = Len(s) /\ \A k \in 1..Len(t) : s[a + k] = t[k]

\* C13: the permits tool keeps a record exactly when its normalized
\* address equals the normalized query, contains it, or is contained in
\* it, and drops every other record
C13_BidirectionalMatch ==
  (matches.done /\ matches.tool = "permits") =>
    matches.kept =
      SelectSeq(records,
                LAMBDA p :
                  LET rec == normalizeAddress(TextOf(p.address))
                      q == normalizeAddress(query)
                  IN rec = q \/ Occurs(q, rec) \/ Occurs(rec, q))

\* a record is kept because the query strictly contains its address, and
\* another record is dropped
C13_Witness ==
  /\ matches.done
  /\ matches.tool = "permits"
  /\ Len(matches.kept) = 1
  /\ Len(records) = 2
  /\ normalizeAddress(TextOf(matches.kept[1].address)) # normalizeAddress(query)
  /\ normalizeAddress(TextOf(matches.kept[1].address)) # <<>>
  /\ Occurs(normalizeAddress(TextOf(matches.kept[1].address)),
            normalizeAddress(query))

\* the location field of a 311 record: location_street_name, else
\* location, else the empty string
LocationOf(r) ==
  IF TextOf(r.location_street_name) # <<>>
    THEN TextOf(r.location_street_name)
    ELSE TextOf(r.location)

C15_NeverThrows == summary.done => ~summary.threw

\* the grouping key of a row: its trimmed value, UNKNOWN when the value
\* is missing or empty
GroupOf(r) ==
  IF TextOf(r.field) = <<>> THEN UNKNOWN ELSE trim(TextOf(r.field))

ExampleAAB ==
  <<[field |-> Str(<<"A">>), amount |-> Absent],
    [field |-> Str(<<"A">>), amount |-> Absent],
    [field |-> Str(<<"B">>), amount |-> Absent]>>

\* C16: every entry of a count summary has a non-empty key and counts
\* the records whose trimmed value is that key, the records without a
\* value being counted under UNKNOWN; the values A, A, B with top 2 give
\* rank 1 A with 2 and rank 2 B with 1
C16_CountMode ==
  (summary.done /\ summary.tool = "count" /\ ~summary.threw) =>
    /\ \A k \in 1..Len(summary.entries) :
         /\ summary.entries[k].key # <<>>
         /\ summary.entries[k].metric =
              Cardinality({j \in 1..Len(rows) :
                             GroupOf(rows[j]) = summary.entries[k].key})
    /\ (rows = ExampleAAB /\ top = 2) =>
         summary.entries =
           <<[rank |-> 1, key |-> <<"A">>, metric |-> 2],
             [rank |-> 2, key |-> <<"B">>, metric |-> 1]>>

\* the first row that is counted under a key
FirstSeen(key) ==
  CHOOSE j \in 1..Len(rows) :
    /\ keyOf(rows[j]).key = key
    /\ \A h \in 1..(j - 1) : keyOf(rows[h]).key # key

\* C17: the entries of a summary are in descending order of metric, and
\* of two entries with the same metric the one whose key was encountered
\* first comes first
C17_Ordering ==
  (summary.done /\ ~summary.threw) =>
    \A a, b \in 1..Len(summary.entries) :
      a < b =>
        /\ summary.entries[a].metric >= summary.entries[b].metric
        /\ summary.entries[a].metric = summary.entries[b].metric =>
             FirstSeen(summary.entries[a].key)
               < FirstSeen(summary.entries[b].key)

\* C18: a summary has min(top, distinct keys) entries, ranked 1, 2, ...
\* in output order; 25 records of 3 offense types give 3 entries
C18_EntryCount ==
  (summary.done /\ ~summary.threw) =>
    /\ Len(summary.entries) =
         Min(top, Cardinality({keyOf(rows[j]).key : j \in 1..Len(rows)}))
    /\ Len(summary.entries) <= top
    /\ \A k \in 1..Len(summary.entries) : summary.entries[k].rank = k
    /\ (rows = Offenses25 /\ summary.tool = "count" /\ top = 10) =>
         Len(summary.entries) = 3

\* fewer entries than keys: the summary is cut at top
C18_Witness ==
  /\ summary.done
  /\ ~summary.threw
  /\ Len(summary.entries) = 2
  /\ top = 2
  /\ Cardinality({keyOf(rows[j]).key : j \in 1..Len(rows)}) = 3

\* what each Monetary Amount is worth, in cents
ExpectedCents(a) ==
  CASE a = Str(<<"$", "1", "0", ".", "0", "0">>) -> 1000
    [] a = Str(<<"$", "5">>) -> 500
    [] a = Str(<<"-", "2", ".", "5", "0">>) -> 0 - 250
    [] OTHER -> 0

RECURSIVE ExpectedTotal(_, _)
ExpectedTotal(key, k) ==
  IF k = 0
    THEN 0
    ELSE ExpectedTotal(key, k - 1)
           + (IF GroupOf(rows[k]) = key
                THEN ExpectedCents(rows[k].amount)
                ELSE 0)

ExampleAmounts ==
  <<[field |-> Str(<<"A">>),
     amount |-> Str(<<"$", "1", "0", ".", "0", "0">>)],
    [field |-> Str(<<"A">>), amount |-> Str(<<"a", "b", "c">>)],
    [field |-> Str(<<"A">>), amount |-> Str(<<"$", "5">>)]>>

\* C19: with vendors and amounts that are strings or missing the vendor
\* totals are always produced, each total is the sum of the vendor's amounts, an
\* amount that is not a number counting for 0; $10.00, abc and $5 of one
\* vendor sum to 15
C19_SumMode ==
  (/\ summary.done
   /\ summary.tool = "sum"
   /\ \A j \in 1..Len(rows) :
        rows[j].field.t # "number" /\ rows[j].amount.t # "number") =>
    /\ ~summary.threw
    /\ \A k \in 1..Len(summary.entries) :
         summary.entries[k].metric =
           ExpectedTotal(summary.entries[k].key, Len(rows))
    /\ rows = ExampleAmounts =>
         summary.entries = <<[rank |-> 1, key |-> <<"A">>, metric |-> 1500]>>

\* the three amounts of the example are summed
C19_Witness ==
  /\ summary.done
  /\ summary.tool = "sum"
  /\ rows = ExampleAmounts
  /\ summary.entries[1].metric = 1500

\* C20: when the upstream reports no total, fetchAllCkanRecords returns
\* only after a page shorter than the limit: a full page is followed by
\* a request for the next offset
C20_LengthBased ==
  (ckanPc = "returned" /\ ckanReported = 0) =>
    offset - ckanLog[Len(ckanLog)] < CkanLimit

\* C21: the page requests of a paginator are those of the total the
\* probe read: whatever the pages hold and however the upstream changed
\* since the probe, every request issued is one of the offsets 0, P,
\* 2P, ... below that total, in that order, and a call that returns has
\* issued every one of them
C21_RequestsFromProbe ==
  /\ \A k \in 1..Len(issued) :
       issued[k].off = (k - 1) * PAGE_SIZE /\ issued[k].off < total
  /\ pc = "paging" => offsets = offsetsFrom(0, total)
  /\ (fetchResult = "returned" /\ total > 0) =>
       Len(issued) = CeilDiv(total, PAGE_SIZE)

\* the upstream lost its rows after the probe, pages came back short or
\* empty, and the second batch was requested all the same
C21_Witness ==
  /\ fetchResult = "returned"
  /\ changes > 0
  /\ Length(allRecords) < total
  /\ Len(issued) = CeilDiv(total, PAGE_SIZE)
  /\ Len(issued) > PARALLEL_REQUESTS

\* C22: a request is issued at most once, and once a request of the call
\* got a failure no step issues a request any more
C22_NoRetryNoContinuation ==
  /\ [](/\ probes <= 1
        /\ \A j, k \in 1..Len(issued) :
             issued[j].off = issued[k].off => j = k)
  /\ [][faults' # {} => (issued' = issued /\ probes' = probes)]_vars

\* C24: against an upstream that does not change and whose requests all
\* succeed, the result of a paginator is the rows 0 .. T - 1 of the
\* dataset, each once and in order: page after page from offset 0, every
\* page full but the last, T records in all
C24_Complete ==
  (fetchResult = "returned" /\ changes = 0 /\ faults = {}) =>
    /\ Length(allRecords) = remoteTotal
    /\ Len(allRecords) = CeilDiv(remoteTotal, PAGE_SIZE)
    /\ \A k \in 1..Len(allRecords) :
         /\ allRecords[k].off = (k - 1) * PAGE_SIZE
         /\ allRecords[k].n = Min(PAGE_SIZE, remoteTotal - allRecords[k].off)

\* a total that is a multiple of the page size and needs two batches
C24_Witness ==
  /\ fetchResult = "returned"
  /\ changes = 0
  /\ faults = {}
  /\ remoteTotal > PARALLEL_REQUESTS * PAGE_SIZE
  /\ remoteTotal % PAGE_SIZE = 0
  /\ Length(allRecords) = remoteTotal
  /\ tool = "permits"

\* the length of the word a string starts with
wordLength(s) ==
  CHOOSE n \in 0..Len(s) :
    /\ \A j \in 1..n : s[j] # " "
    /\ (n < Len(s) => s[n + 1] = " ")

\* a word in upper case, a street suffix as ST or AV
canonical(w) ==
  IF toUpperCase(w) \in {<<"S", "T", "R", "E", "E", "T">>, <<"S", "T">>}
    THEN <<"S", "T">>
  ELSE IF toUpperCase(w) \in
            {<<"A", "V", "E", "N", "U", "E">>, <<"A", "V", "E">>, <<"A", "V">>}
    THEN <<"A", "V">>
  ELSE toUpperCase(w)

\* a string word by word, the separators kept
RECURSIVE wordByWord(_)
wordByWord(s) ==
  IF s = <<>>
    THEN <<>>
  ELSE IF Head(s) = " "
    THEN <<" ">> \o wordByWord(Tail(s))
  ELSE canonical(SubSeq(s, 1, wordLength(s)))
         \o wordByWord(SubSeq(s, wordLength(s) + 1, Len(s)))

\* C23: apart from removing periods, uppercasing and trimming the ends,
\* normalizeAddress only replaces the whole words that are street
\* suffixes: every other word and every separator is in the result as it
\* was
C23_WholeWordsOnly ==
  normalized.done =>
    normalized.addr = trim(wordByWord(removePeriods(Flatten(address))))

\* a record whose address is missing, empty, or normalizes to nothing
Blank(p) == normalizeAddress(TextOf(p.address)) = <<>>

\* C27: the permits tool keeps every record whose address is missing,
\* empty or normalizes to the empty string, whatever address is asked for
C27_BlankAlwaysPasses ==
  (matches.done /\ matches.tool = "permits") =>
    SelectSeq(matches.kept, Blank) = SelectSeq(records, Blank)

\* of two records the one without an address is kept for a query that
\* the other record does not match
C27_Witness ==
  /\ matches.done
  /\ matches.tool = "permits"
  /\ normalizeAddress(query) # <<>>
  /\ Len(records) = 2
  /\ ~Blank(records[1])
  /\ matches.kept = <<records[2]>>
  /\ Blank(records[2])

RECURSIVE SumOfMetrics(_)
SumOfMetrics(es) ==
  IF es = <<>> THEN 0 ELSE Head(es).metric + SumOfMetrics(Tail(es))

\* C28: the counts a count summary lists sum to at most the number of
\* records summarized, and to that number when top is at least the
\* number of keys
C28_CountConservation ==
  (summary.done /\ summary.tool = "count" /\ ~summary.threw) =>
    /\ SumOfMetrics(summary.entries) <= Len(rows)
    /\ top >= Cardinality({keyOf(rows[j]).key : j \in 1..Len(rows)}) =>
         SumOfMetrics(summary.entries) = Len(rows)

\* a summary cut at top 1 lists 2 of 3 records
C28_Witness ==
  /\ summary.done
  /\ summary.tool = "count"
  /\ ~summary.threw
  /\ top = 1
  /\ Len(rows) = 3
  /\ SumOfMetrics(summary.entries) = 2

\* C25: fetchAllCkanRecords ends, whatever the upstream answers: a
\* response either ends the loop or moves the offset a full page on, no
\* offset is requested twice, at most one request goes beyond the rows
\* the upstream holds, and the call returns or throws in the end
C25_Terminates ==
  /\ [](/\ \A j, k \in 1..Len(ckanLog) : j < k => ckanLog[j] < ckanLog[k]
        /\ Len(ckanLog) <= (ckanRows \div CkanLimit) + 1)
  /\ [][ckanPc = "fetching" =>
          (ckanPc' # "fetching" \/ offset' = offset + CkanLimit)]_vars
  /\ <>(ckanPc \in {"returned", "threw"})

\* the upstream reports more rows than it serves, and the empty page
\* past its last row ends the loop
C25_Witness ==
  /\ ckanPc = "returned"
  /\ ckanReported > ckanRows
  /\ Len(ckanLog) > 1
  /\ offset = ckanLog[Len(ckanLog)]

\* what call v returns when it runs alone against its upstream: it
\* throws when its probe or one of its pages gets the error status, and
\* returns the pages of its dataset in order otherwise
Alone(v) ==
  LET pl == isoPlan[v]
      pages == CeilDiv(pl.rows, PAGE_SIZE)
  IN IF pl.badProbe \/ pl.badPages # {}
       THEN [st |-> "threw", recs |-> <<>>]
       ELSE [st |-> "returned",
             recs |-> [k \in 1..pages |->
                         [owner |-> v, off |-> (k - 1) * PAGE_SIZE,
                          n |-> Min(PAGE_SIZE,
                                    pl.rows - (k - 1) * PAGE_SIZE)]]]

\* C26: of two calls whose awaits interleave in any order, each returns
\* what it returns alone against the same upstream, and holds no record
\* of the other's dataset at any time
C26_Isolation ==
  \A v \in Invocations :
    /\ isoPc[v] = "done" => isoResult[v] = Alone(v)
    /\ \A k \in 1..Len(isoResult[v].recs) : isoResult[v].recs[k].owner = v
    /\ \A k \in 1..Len(isoLocals[frameOf(v)].allRecords) :
         isoLocals[frameOf(v)].allRecords[k].owner = v

\* both calls returned records of more than one batch, and their steps
\* interleaved
C26_Witness ==
  /\ interleaved
  /\ \A v \in Invocations :
       /\ isoPc[v] = "done"
       /\ isoResult[v].st = "returned"
       /\ Len(isoResult[v].recs) > PARALLEL_REQUESTS

====
